---------------------------- MODULE Spec2Model ----------------------------
(***************************************************************************)
(* A model of src/app.py of the Schema Data Generator: the rule-based FAQ  *)
(* parser (parse_faq_input), the two renderers (generate_json_ld and       *)
(* generate_microdata, with escape_html) and the "Generate Schema" button  *)
(* handler with its two collaborators (fetch_url_content and               *)
(* generate_schema_with_ai).                                               *)
(*                                                                         *)
(* Python strings are sequences of one-character strings.  A Python value  *)
(* that came out of json.loads is a tagged record: Str, Num, Null, Obj,    *)
(* Lst.  A Python call that can raise returns [exc |-> "none", ...] or     *)
(* [exc |-> <the exception's class>].                                      *)
(***************************************************************************)
EXTENDS Integers, Sequences, FiniteSets, TLC

VARIABLES
    input_lines,    \* parser run: the lines typed into the text, in order
    faq_pc,         \* parser run: "input" while typing, "parsed" afterwards
    faqs,           \* parser run: the list parse_faq_input returned
    schema_type,    \* rendering run: the schema type selected
    data,           \* rendering run: the canonical data mapping
    render_pc,      \* rendering run: "build" while filling, then "rendered"
    json_ld,        \* rendering run: what generate_json_ld returned or raised
    microdata,      \* rendering run: what generate_microdata returned or raised
    api_key,        \* form: the API key field
    input_mode,     \* form: "Text Input" or "URL Input"
    content_input,  \* form: the text area
    url_input,      \* form: the URL field
    format_option,  \* form: "JSON-LD" or "HTML Microdata"
    pc,             \* handler: where the run of the script stands
    final_content,  \* handler: the text handed to the service
    fetch_error,    \* handler: the message fetch_url_content returned
    error,          \* handler: the message generate_schema_with_ai returned
    output,         \* handler: what the renderer returned or raised
    download,       \* handler: the file the download button offers
    messages,       \* handler: the st.error / st.info / st.success boxes shown
    calls,          \* handler: the functions called, in order
    raw_text,       \* escaping: the text handed to escape_html
    escaped_text,   \* escaping: the text escape_html returned
    esc_pc          \* escaping: "input" while the text is typed, then "escaped"

faqVars == <<input_lines, faq_pc, faqs>>
renderVars == <<schema_type, data, render_pc, json_ld, microdata>>
formVars == <<schema_type, api_key, input_mode, content_input, url_input,
              format_option>>
handlerVars == <<api_key, input_mode, content_input, url_input, format_option,
                 pc, final_content, fetch_error, error, output, download,
                 messages, calls>>
escVars == <<raw_text, escaped_text, esc_pc>>
vars == <<faqVars, renderVars, handlerVars, escVars>>

(***************************************************************************)
(* Bounds of the model.                                                    *)
(***************************************************************************)
MaxLines == 5
MaxFields == 2
MaxText == 3
MaxFlipLines == 4

(***************************************************************************)
(* Python string primitives used by the source.                            *)
(***************************************************************************)
\* The characters str.strip() removes (those that occur in the model).
Whitespace == {" ", "\n"}

RECURSIVE LStrip(_)
LStrip(s) ==
    IF s # <<>> /\ Head(s) \in Whitespace THEN LStrip(Tail(s)) ELSE s

RECURSIVE RStrip(_)
RStrip(s) ==
    IF s # <<>> /\ s[Len(s)] \in Whitespace
    THEN RStrip(SubSeq(s, 1, Len(s) - 1))
    ELSE s

\* str.strip()
Strip(s) == RStrip(LStrip(s))

\* str.upper(), on the letters of the model
UpperChar(c) ==
    CASE c = "q" -> "Q"
      [] c = "a" -> "A"
      [] c = "x" -> "X"
      [] c = "y" -> "Y"
      [] c = "z" -> "Z"
      [] OTHER -> c

Upper(s) == [i \in 1..Len(s) |-> UpperChar(s[i])]

\* str.startswith(prefix)
StartsWith(s, prefix) ==
    Len(s) >= Len(prefix) /\ SubSeq(s, 1, Len(prefix)) = prefix

\* s[n:]
DropFirst(s, n) == SubSeq(s, n + 1, Len(s))

\* str.split(sep): the pieces between the non-overlapping occurrences of
\* sep, found left to right; cur is the piece being read.
RECURSIVE SplitAcc(_, _, _)
SplitAcc(s, sep, cur) ==
    IF Len(s) < Len(sep) THEN <<cur \o s>>
    ELSE IF SubSeq(s, 1, Len(sep)) = sep
         THEN <<cur>> \o SplitAcc(DropFirst(s, Len(sep)), sep, <<>>)
         ELSE SplitAcc(Tail(s), sep, Append(cur, Head(s)))

Split(s, sep) == SplitAcc(s, sep, <<>>)

\* "\n".join(lines): the text of a text area holding these lines
RECURSIVE JoinLines(_)
JoinLines(lines) ==
    IF lines = <<>> THEN <<>>
    ELSE IF Len(lines) = 1 THEN lines[1]
    ELSE lines[1] \o <<"\n">> \o JoinLines(Tail(lines))

(***************************************************************************)
(* parse_faq_input                                                         *)
(***************************************************************************)
\* a slip of line 286: the text cut at every line break
SectionsOf_SingleNewline(input_text) == Split(Strip(input_text), <<"\n">>)

\* line 286: the text is stripped and cut at every "\n\n"
SectionsOf(input_text) == Split(Strip(input_text), <<"\n", "\n">>)

\* line 289: a section is stripped and cut at every "\n"
LinesOf(section) == Split(Strip(section), <<"\n">>)

\* a slip of line 295: the marker is looked for as it is written
IsQuestionLine_CaseSensitive(trimmed_line) == StartsWith(trimmed_line, <<"Q", ":">>)

\* line 295
IsQuestionLine(trimmed_line) == StartsWith(Upper(trimmed_line), <<"Q", ":">>)

\* line 297
IsAnswerLine(trimmed_line) == StartsWith(Upper(trimmed_line), <<"A", ":">>)

\* lines 296 and 298: the text after the two-character marker, stripped
MarkerText(trimmed_line) == Strip(DropFirst(trimmed_line, 2))

\* lines 293-302: the loop over the lines of one section
RECURSIVE ScanLines(_, _, _)
ScanLines(lines, question, answer) ==
    IF lines = <<>> THEN [question |-> question, answer |-> answer]
    ELSE LET trimmed_line == Strip(Head(lines)) IN
         IF IsQuestionLine(trimmed_line)
         THEN ScanLines(Tail(lines), MarkerText(trimmed_line), answer)
         ELSE IF IsAnswerLine(trimmed_line)
         THEN ScanLines(Tail(lines), question, MarkerText(trimmed_line))
         ELSE IF question # <<>> /\ answer = <<>>
         THEN ScanLines(Tail(lines), question \o <<" ">> \o trimmed_line, answer)
         ELSE IF answer # <<>>
         THEN ScanLines(Tail(lines), question, answer \o <<" ">> \o trimmed_line)
         ELSE ScanLines(Tail(lines), question, answer)

\* a slip of line 304: the item is appended whatever the accumulators hold
EmitsItem_Always(question, answer) == TRUE

\* a slip of line 304: the answer is not looked at
EmitsItem_QuestionOnly(question, answer) == question # <<>>

\* line 304: an item is appended only when both accumulators are non-empty
EmitsItem(question, answer) == question # <<>> /\ answer # <<>>

\* lines 288-305: the loop over the sections
RECURSIVE ScanSections(_)
ScanSections(sections) ==
    IF sections = <<>> THEN <<>>
    ELSE LET item == ScanLines(LinesOf(Head(sections)), <<>>, <<>>) IN
         (IF EmitsItem(item.question, item.answer) THEN <<item>> ELSE <<>>)
             \o ScanSections(Tail(sections))

parse_faq_input(input_text) == ScanSections(SectionsOf(input_text))

(***************************************************************************)
(* Python values and calls.  A text is a sequence of characters; a literal *)
(* text of the source that no code looks into, and a sample value, is kept *)
(* as a text of one token.                                                 *)
(***************************************************************************)
Str(s) == [t |-> "str", s |-> s]
Num(n) == [t |-> "num", n |-> n]
Null == [t |-> "null"]
Obj(o) == [t |-> "obj", o |-> o]
Lst(l) == [t |-> "list", l |-> l]
Lit(token) == Str(<<token>>)
EmptyStr == Str(<<>>)
EmptyObj == Obj(<<>>)
EmptyLst == Lst(<<>>)

\* the outcome of a call: a value, or an exception on its way up
Ok(v) == [exc |-> "none", v |-> v]
Raise(e) == [exc |-> e]

\* the first exception raised when the results are evaluated in order
FirstRaise(rs) ==
    LET bad == {i \in 1..Len(rs) : rs[i].exc # "none"} IN
    IF bad = {} THEN "none"
    ELSE rs[CHOOSE i \in bad : \A j \in bad : i <= j].exc

\* d.get(k, dflt): only a dict has .get
PyGet(d, k, dflt) ==
    IF d.t = "obj"
    THEN Ok(IF k \in DOMAIN d.o THEN d.o[k] ELSE dflt)
    ELSE Raise("AttributeError")

\* d.get(k1, {}).get(k2, dflt)
PyGet2(d, k1, k2, dflt) ==
    LET r == PyGet(d, k1, EmptyObj) IN
    IF r.exc # "none" THEN r ELSE PyGet(r.v, k2, dflt)

\* item[k]: a KeyError on a dict without k, a TypeError on any other value
PyItem(item, k) ==
    IF item.t = "obj"
    THEN (IF k \in DOMAIN item.o THEN Ok(item.o[k]) ELSE Raise("KeyError"))
    ELSE Raise("TypeError")

\* the elements "for item in v" runs over: those of a list, the characters
\* of a text, nothing for an empty dict; a number and None are not iterable
PyIter(v) ==
    CASE v.t = "list" -> Ok(v.l)
      [] v.t = "str" -> Ok([i \in 1..Len(v.s) |-> Str(<<v.s[i]>>)])
      [] v.t = "obj" /\ DOMAIN v.o = {} -> Ok(<<>>)
      [] v.t \in {"num", "null"} -> Raise("TypeError")

\* one "key": value entry of a dict literal
Entry(k, r) == [k |-> k, r |-> r]

\* a dict literal: its values are evaluated in order
MakeDict(entries) ==
    LET rs == [i \in 1..Len(entries) |-> entries[i].r] IN
    IF FirstRaise(rs) # "none" THEN Raise(FirstRaise(rs))
    ELSE Ok(Obj([k \in {entries[i].k : i \in 1..Len(entries)} |->
                    (entries[CHOOSE i \in 1..Len(entries) : entries[i].k = k]).r.v]))

\* for item in d.get(k, []): the items the loop runs over
Items(d, k) ==
    LET r == PyGet(d, k, EmptyLst) IN IF r.exc # "none" THEN r ELSE PyIter(r.v)

\* how many times the loop body runs
ItemCount(it) == IF it.exc = "none" THEN Len(it.v) ELSE 0

\* a list comprehension over the items it, rs being what its expression
\* gives for each item in turn
ListOf(it, rs) ==
    IF it.exc # "none" THEN it
    ELSE IF FirstRaise(rs) # "none" THEN Raise(FirstRaise(rs))
    ELSE Ok(Lst([i \in 1..Len(rs) |-> rs[i].v]))

\* str(v) as an f-string inserts it
Format(v) ==
    CASE v.t = "str" -> v.s
      [] v.t = "num" -> <<ToString(v.n)>>
      [] v.t = "null" -> <<"None">>

(***************************************************************************)
(* generate_json_ld                                                        *)
(***************************************************************************)
SchemaTypes ==
    {"FAQPage", "Article", "Product", "Breadcrumb", "LocalBusiness", "HowTo",
     "Recipe", "Person"}

Context == Entry("@context", Ok(Lit("https://schema.org")))
TypeTag(name) == Entry("@type", Ok(Lit(name)))

\* a slip: data.get(k), which gives None for an absent key
Scalar_NoDefault(d, k) == Entry(k, PyGet(d, k, Null))

\* data.get(k, '') as the value of key k
Scalar(d, k) == Entry(k, PyGet(d, k, EmptyStr))

\* lines 316-323
QuestionEntry(item) ==
    MakeDict(<<TypeTag("Question"),
               Entry("name", PyItem(item, "question")),
               Entry("acceptedAnswer",
                     MakeDict(<<TypeTag("Answer"),
                                Entry("text", PyItem(item, "answer"))>>))>>)

\* lines 312-326
FAQPageSchema(d) ==
    MakeDict(<<Context, TypeTag("FAQPage"),
               Entry("mainEntity",
                     LET it == Items(d, "mainEntity") IN
                     ListOf(it, [i \in 1..ItemCount(it) |->
                                    QuestionEntry(it.v[i])]))>>)

\* lines 331-334 and 415-418
PersonNamed(d, k) ==
    MakeDict(<<TypeTag("Person"), Entry("name", PyGet(d, k, EmptyStr))>>)

\* lines 327-340
ArticleSchema(d) ==
    MakeDict(<<Context, TypeTag("Article"),
               Scalar(d, "headline"),
               Entry("author", PersonNamed(d, "author")),
               Scalar(d, "datePublished"),
               Scalar(d, "dateModified"),
               Scalar(d, "description"),
               Scalar(d, "articleBody"),
               Scalar(d, "image")>>)

\* line 355: the f-string around the availability
AvailabilityUrl(r) ==
    IF r.exc # "none" THEN r
    ELSE Ok(Str(<<"https://schema.org/">> \o Format(r.v)))

\* lines 341-362
ProductSchema(d) ==
    MakeDict(<<Context, TypeTag("Product"),
               Scalar(d, "name"),
               Scalar(d, "description"),
               Scalar(d, "image"),
               Entry("brand",
                     MakeDict(<<TypeTag("Brand"),
                                Entry("name", PyGet(d, "brand", EmptyStr))>>)),
               Entry("offers",
                     MakeDict(<<TypeTag("Offer"),
                                Entry("price",
                                      PyGet2(d, "offers", "price", Lit("0.00"))),
                                Entry("priceCurrency",
                                      PyGet2(d, "offers", "priceCurrency", Lit("USD"))),
                                Entry("availability",
                                      AvailabilityUrl(PyGet2(d, "offers", "availability",
                                                             Lit("InStock"))))>>)),
               Entry("aggregateRating",
                     MakeDict(<<TypeTag("AggregateRating"),
                                Entry("ratingValue",
                                      PyGet2(d, "aggregateRating", "ratingValue",
                                             Lit("0.0"))),
                                Entry("reviewCount",
                                      PyGet2(d, "aggregateRating", "reviewCount",
                                             Lit("0")))>>))>>)

\* lines 367-372
ListItemEntry(item) ==
    MakeDict(<<TypeTag("ListItem"),
               Entry("position", PyItem(item, "position")),
               Entry("name", PyItem(item, "name")),
               Entry("item", PyItem(item, "item"))>>)

\* lines 363-375
BreadcrumbSchema(d) ==
    MakeDict(<<Context, TypeTag("BreadcrumbList"),
               Entry("itemListElement",
                     LET it == Items(d, "itemListElement") IN
                     ListOf(it, [i \in 1..ItemCount(it) |->
                                    ListItemEntry(it.v[i])]))>>)

\* data.get('address', {}).get(k, '') as the value of key k
AddressPart(d, k) == Entry(k, PyGet2(d, "address", k, EmptyStr))

\* lines 376-393
LocalBusinessSchema(d) ==
    MakeDict(<<Context, TypeTag("LocalBusiness"),
               Scalar(d, "name"),
               Scalar(d, "description"),
               Scalar(d, "image"),
               Entry("address",
                     MakeDict(<<TypeTag("PostalAddress"),
                                AddressPart(d, "streetAddress"),
                                AddressPart(d, "addressLocality"),
                                AddressPart(d, "addressRegion"),
                                AddressPart(d, "postalCode"),
                                AddressPart(d, "addressCountry")>>)),
               Scalar(d, "telephone"),
               Scalar(d, "openingHours"),
               Scalar(d, "priceRange")>>)

\* lines 401-405 and 425-429
HowToStepEntry(step) ==
    MakeDict(<<TypeTag("HowToStep"),
               Entry("name", PyItem(step, "name")),
               Entry("text", PyItem(step, "text"))>>)

\* the steps of data.get(k, []), one HowToStep each
Steps(d, k) ==
    LET it == Items(d, k) IN
    ListOf(it, [i \in 1..ItemCount(it) |-> HowToStepEntry(it.v[i])])

\* lines 394-408
HowToSchema(d) ==
    MakeDict(<<Context, TypeTag("HowTo"),
               Scalar(d, "name"),
               Scalar(d, "description"),
               Scalar(d, "totalTime"),
               Entry("step", Steps(d, "step"))>>)

\* lines 409-432
RecipeSchema(d) ==
    MakeDict(<<Context, TypeTag("Recipe"),
               Scalar(d, "name"),
               Scalar(d, "description"),
               Scalar(d, "image"),
               Entry("author", PersonNamed(d, "author")),
               Scalar(d, "prepTime"),
               Scalar(d, "cookTime"),
               Scalar(d, "totalTime"),
               Scalar(d, "recipeYield"),
               Entry("recipeIngredient", PyGet(d, "recipeIngredient", EmptyLst)),
               Entry("recipeInstructions", Steps(d, "recipeInstructions"))>>)

\* lines 433-449
PersonSchema(d) ==
    MakeDict(<<Context, TypeTag("Person"),
               Scalar(d, "name"),
               Scalar(d, "jobTitle"),
               Scalar(d, "description"),
               Scalar(d, "image"),
               Scalar(d, "url"),
               Scalar(d, "email"),
               Scalar(d, "telephone"),
               Entry("address",
                     MakeDict(<<TypeTag("PostalAddress"),
                                AddressPart(d, "addressLocality"),
                                AddressPart(d, "addressRegion"),
                                AddressPart(d, "addressCountry")>>))>>)

\* lines 311-450: the dict of all eight schemas, built before one is picked
Schemas(d) ==
    MakeDict(<<Entry("FAQPage", FAQPageSchema(d)),
               Entry("Article", ArticleSchema(d)),
               Entry("Product", ProductSchema(d)),
               Entry("Breadcrumb", BreadcrumbSchema(d)),
               Entry("LocalBusiness", LocalBusinessSchema(d)),
               Entry("HowTo", HowToSchema(d)),
               Entry("Recipe", RecipeSchema(d)),
               Entry("Person", PersonSchema(d))>>)

\* json.dumps: a text becomes a JSON string, a number a JSON number, None
\* null, a dict an object, a list an array.  The JSON text is kept as the
\* tree it denotes.
RECURSIVE json_dumps(_)
json_dumps(v) ==
    CASE v.t = "str" -> [j |-> "string", s |-> v.s]
      [] v.t = "num" -> [j |-> "number", n |-> v.n]
      [] v.t = "null" -> [j |-> "null"]
      [] v.t = "obj" -> [j |-> "object",
                         o |-> [k \in DOMAIN v.o |-> json_dumps(v.o[k])]]
      [] v.t = "list" -> [j |-> "array",
                          l |-> [i \in 1..Len(v.l) |-> json_dumps(v.l[i])]]

\* a slip of line 452: the FAQ schema whatever the type
PickSchema_AlwaysFAQ(schemas, stype) == schemas.o["FAQPage"]

\* a slip of line 452: schemas[schema_type], without the fallback; the
\* KeyError is shown as a document that says so
PickSchema_NoFallback(schemas, stype) ==
    IF stype \in DOMAIN schemas.o THEN schemas.o[stype] ELSE Lit("KeyError")

\* line 452
PickSchema(schemas, stype) ==
    IF stype \in DOMAIN schemas.o
    THEN schemas.o[stype]
    ELSE schemas.o["FAQPage"]

\* lines 309-453
generate_json_ld(d, stype) ==
    LET schemas == Schemas(d) IN
    IF schemas.exc # "none" THEN schemas
    ELSE Ok(json_dumps(PickSchema(schemas.v, stype)))

(***************************************************************************)
(* escape_html                                                             *)
(***************************************************************************)
\* str.replace(c, rep) for a one-character c
RECURSIVE Replace(_, _, _)
Replace(s, c, rep) ==
    IF s = <<>> THEN <<>>
    ELSE (IF Head(s) = c THEN rep ELSE <<Head(s)>>) \o Replace(Tail(s), c, rep)

AmpEntity == <<"&", "a", "m", "p", ";">>
LtEntity == <<"&", "l", "t", ";">>
GtEntity == <<"&", "g", "t", ";">>
QuotEntity == <<"&", "q", "u", "o", "t", ";">>
AposEntity == <<"&", "#", "3", "9", ";">>

\* a slip of lines 458-462: the ampersand replaced last
escape_html_AmpLast(text) ==
    Replace(Replace(Replace(Replace(Replace(text,
        "<", LtEntity), ">", GtEntity), "\"", QuotEntity), "'", AposEntity),
        "&", AmpEntity)

\* lines 455-462: five replacements, the ampersand first
escape_html(text) ==
    Replace(Replace(Replace(Replace(Replace(text,
        "&", AmpEntity), "<", LtEntity), ">", GtEntity), "\"", QuotEntity),
        "'", AposEntity)

(***************************************************************************)
(* generate_microdata.  The markup is kept as the sequence of its pieces:  *)
(* the literal texts of the source, and between them the texts the f-      *)
(* strings insert, each with the path of the field it is the value of     *)
(* (the JSON-LD keys that lead to it); the markup itself is the            *)
(* concatenation of the pieces.                                            *)
(***************************************************************************)
\* a literal piece of markup
L(s) == Ok([kind |-> "lit", lit |-> s])

\* {escape_html(<r>)}: the text is escaped; only a text has .replace
Escaped(prop, r) ==
    IF r.exc # "none" THEN r
    ELSE IF r.v.t = "str"
         THEN Ok([kind |-> "val", prop |-> prop, text |-> escape_html(r.v.s)])
         ELSE Raise("AttributeError")

\* {<r>}: the value is inserted as str() gives it
Inserted(prop, r) ==
    IF r.exc # "none" THEN r
    ELSE Ok([kind |-> "val", prop |-> prop, text |-> Format(r.v)])

RECURSIVE Concat(_)
Concat(seqs) == IF seqs = <<>> THEN <<>> ELSE Head(seqs) \o Concat(Tail(seqs))

\* a for loop over the items it that appends to html, pieces being what
\* its body appends for each item in turn
Loop(it, pieces) == IF it.exc # "none" THEN <<it>> ELSE Concat(pieces)

\* html, once every piece has been appended
Markup(pieces) ==
    IF FirstRaise(pieces) # "none" THEN Raise(FirstRaise(pieces))
    ELSE Ok([i \in 1..Len(pieces) |-> pieces[i].v])

\* lines 469-474
FAQItemMarkup(item) ==
    << L("  <div itemscope itemprop=\"mainEntity\" itemtype=\"https://schema.org/Question\">\n"),
       L("    <h3 itemprop=\"name\">"),
       Escaped(<<"mainEntity", "name">>, PyItem(item, "question")),
       L("</h3>\n"),
       L("    <div itemscope itemprop=\"acceptedAnswer\" itemtype=\"https://schema.org/Answer\">\n"),
       L("      <div itemprop=\"text\">"),
       Escaped(<<"mainEntity", "acceptedAnswer", "text">>, PyItem(item, "answer")),
       L("</div>\n"),
       L("    </div>\n"),
       L("  </div>\n") >>

\* lines 466-476
FAQPageMarkup(d) ==
    Markup(<<L("<div itemscope itemtype=\"https://schema.org/FAQPage\">\n")>>
           \o Loop(Items(d, "mainEntity"),
                   [i \in 1..ItemCount(Items(d, "mainEntity")) |->
                       FAQItemMarkup(Items(d, "mainEntity").v[i])])
           \o <<L("</div>")>>)

\* lines 477-488
ArticleMarkup(d) ==
    Markup(<< L("<article itemscope itemtype=\"https://schema.org/Article\">\n"),
              L("  <h1 itemprop=\"headline\">"),
              Escaped(<<"headline">>, PyGet(d, "headline", EmptyStr)),
              L("</h1>\n"),
              L("  <div itemprop=\"author\" itemscope itemtype=\"https://schema.org/Person\">\n"),
              L("    <span itemprop=\"name\">"),
              Escaped(<<"author", "name">>, PyGet(d, "author", EmptyStr)),
              L("</span>\n"),
              L("  </div>\n"),
              L("  <meta itemprop=\"datePublished\" content=\""),
              Inserted(<<"datePublished">>, PyGet(d, "datePublished", EmptyStr)),
              L("\">\n"),
              L("  <meta itemprop=\"dateModified\" content=\""),
              Inserted(<<"dateModified">>, PyGet(d, "dateModified", EmptyStr)),
              L("\">\n"),
              L("  <div itemprop=\"description\">"),
              Escaped(<<"description">>, PyGet(d, "description", EmptyStr)),
              L("</div>\n"),
              L("  <div itemprop=\"articleBody\">"),
              Escaped(<<"articleBody">>, PyGet(d, "articleBody", EmptyStr)),
              L("</div>\n"),
              L("</article>") >>)

\* lines 489-501
ProductMarkup(d) ==
    Markup(<< L("<div itemscope itemtype=\"https://schema.org/Product\">\n"),
              L("  <h1 itemprop=\"name\">"),
              Escaped(<<"name">>, PyGet(d, "name", EmptyStr)),
              L("</h1>\n"),
              L("  <div itemprop=\"description\">"),
              Escaped(<<"description">>, PyGet(d, "description", EmptyStr)),
              L("</div>\n"),
              L("  <div itemprop=\"brand\" itemscope itemtype=\"https://schema.org/Brand\">\n"),
              L("    <span itemprop=\"name\">"),
              Escaped(<<"brand", "name">>, PyGet(d, "brand", EmptyStr)),
              L("</span>\n"),
              L("  </div>\n"),
              L("  <div itemprop=\"offers\" itemscope itemtype=\"https://schema.org/Offer\">\n"),
              L("    <span itemprop=\"price\">"),
              Inserted(<<"offers", "price">>, PyGet2(d, "offers", "price", Lit("0.00"))),
              L("</span>\n"),
              L("    <meta itemprop=\"priceCurrency\" content=\""),
              Inserted(<<"offers", "priceCurrency">>, PyGet2(d, "offers", "priceCurrency", Lit("USD"))),
              L("\">\n"),
              L("  </div>\n"),
              L("</div>") >>)

\* lines 505-510
BreadcrumbItemMarkup(item) ==
    << L("  <li itemprop=\"itemListElement\" itemscope itemtype=\"https://schema.org/ListItem\">\n"),
       L("    <a itemprop=\"item\" href=\""),
       Escaped(<<"itemListElement", "item">>, PyItem(item, "item")),
       L("\">\n"),
       L("      <span itemprop=\"name\">"),
       Escaped(<<"itemListElement", "name">>, PyItem(item, "name")),
       L("</span>\n"),
       L("    </a>\n"),
       L("    <meta itemprop=\"position\" content=\""),
       Inserted(<<"itemListElement", "position">>, PyItem(item, "position")),
       L("\">\n"),
       L("  </li>\n") >>

\* lines 502-512
BreadcrumbMarkup(d) ==
    Markup(<<L("<ol itemscope itemtype=\"https://schema.org/BreadcrumbList\">\n")>>
           \o Loop(Items(d, "itemListElement"),
                   [i \in 1..ItemCount(Items(d, "itemListElement")) |->
                       BreadcrumbItemMarkup(Items(d, "itemListElement").v[i])])
           \o <<L("</ol>")>>)

\* lines 513-525
LocalBusinessMarkup(d) ==
    Markup(<< L("<div itemscope itemtype=\"https://schema.org/LocalBusiness\">\n"),
              L("  <h1 itemprop=\"name\">"),
              Escaped(<<"name">>, PyGet(d, "name", EmptyStr)),
              L("</h1>\n"),
              L("  <div itemprop=\"description\">"),
              Escaped(<<"description">>, PyGet(d, "description", EmptyStr)),
              L("</div>\n"),
              L("  <div itemprop=\"address\" itemscope itemtype=\"https://schema.org/PostalAddress\">\n"),
              L("    <span itemprop=\"streetAddress\">"),
              Escaped(<<"address", "streetAddress">>, PyGet2(d, "address", "streetAddress", EmptyStr)),
              L("</span>,\n"),
              L("    <span itemprop=\"addressLocality\">"),
              Escaped(<<"address", "addressLocality">>, PyGet2(d, "address", "addressLocality", EmptyStr)),
              L("</span>,\n"),
              L("    <span itemprop=\"addressRegion\">"),
              Escaped(<<"address", "addressRegion">>, PyGet2(d, "address", "addressRegion", EmptyStr)),
              L("</span>\n"),
              L("    <span itemprop=\"postalCode\">"),
              Escaped(<<"address", "postalCode">>, PyGet2(d, "address", "postalCode", EmptyStr)),
              L("</span>\n"),
              L("  </div>\n"),
              L("  <div itemprop=\"telephone\">"),
              Escaped(<<"telephone">>, PyGet(d, "telephone", EmptyStr)),
              L("</div>\n"),
              L("</div>") >>)

\* lines 532-535
HowToStepMarkup(step) ==
    << L("    <li itemprop=\"step\" itemscope itemtype=\"https://schema.org/HowToStep\">\n"),
       L("      <strong itemprop=\"name\">"),
       Escaped(<<"step", "name">>, PyItem(step, "name")),
       L("</strong>: \n"),
       L("      <span itemprop=\"text\">"),
       Escaped(<<"step", "text">>, PyItem(step, "text")),
       L("</span>\n"),
       L("    </li>\n") >>

\* lines 526-538
HowToMarkup(d) ==
    Markup(<< L("<div itemscope itemtype=\"https://schema.org/HowTo\">\n"),
              L("  <h1 itemprop=\"name\">"),
              Escaped(<<"name">>, PyGet(d, "name", EmptyStr)),
              L("</h1>\n"),
              L("  <div itemprop=\"description\">"),
              Escaped(<<"description">>, PyGet(d, "description", EmptyStr)),
              L("</div>\n"),
              L("  <ol>\n") >>
           \o Loop(Items(d, "step"),
                   [i \in 1..ItemCount(Items(d, "step")) |->
                       HowToStepMarkup(Items(d, "step").v[i])])
           \o << L("  </ol>\n"), L("</div>") >>)

\* line 549: an ingredient is escaped as it is
IngredientMarkup(ingredient) ==
    << L("    <li itemprop=\"recipeIngredient\">"),
       Escaped(<<"recipeIngredient">>, Ok(ingredient)),
       L("</li>\n") >>

\* lines 554-556
InstructionMarkup(step) ==
    << L("    <li itemprop=\"recipeInstructions\" itemscope itemtype=\"https://schema.org/HowToStep\">\n"),
       L("      <span itemprop=\"text\">"),
       Escaped(<<"recipeInstructions", "text">>, PyItem(step, "text")),
       L("</span>\n"),
       L("    </li>\n") >>

\* lines 539-559
RecipeMarkup(d) ==
    Markup(<< L("<div itemscope itemtype=\"https://schema.org/Recipe\">\n"),
              L("  <h1 itemprop=\"name\">"),
              Escaped(<<"name">>, PyGet(d, "name", EmptyStr)),
              L("</h1>\n"),
              L("  <div itemprop=\"description\">"),
              Escaped(<<"description">>, PyGet(d, "description", EmptyStr)),
              L("</div>\n"),
              L("  <div itemprop=\"author\" itemscope itemtype=\"https://schema.org/Person\">\n"),
              L("    <span itemprop=\"name\">"),
              Escaped(<<"author", "name">>, PyGet(d, "author", EmptyStr)),
              L("</span>\n"),
              L("  </div>\n"),
              L("  <div>Ingredients:</div>\n"),
              L("  <ul>\n") >>
           \o Loop(Items(d, "recipeIngredient"),
                   [i \in 1..ItemCount(Items(d, "recipeIngredient")) |->
                       IngredientMarkup(Items(d, "recipeIngredient").v[i])])
           \o << L("  </ul>\n"),
                 L("  <div>Instructions:</div>\n"),
                 L("  <ol>\n") >>
           \o Loop(Items(d, "recipeInstructions"),
                   [i \in 1..ItemCount(Items(d, "recipeInstructions")) |->
                       InstructionMarkup(Items(d, "recipeInstructions").v[i])])
           \o << L("  </ol>\n"), L("</div>") >>)

\* lines 560-568
PersonMarkup(d) ==
    Markup(<< L("<div itemscope itemtype=\"https://schema.org/Person\">\n"),
              L("  <h1 itemprop=\"name\">"),
              Escaped(<<"name">>, PyGet(d, "name", EmptyStr)),
              L("</h1>\n"),
              L("  <div itemprop=\"jobTitle\">"),
              Escaped(<<"jobTitle">>, PyGet(d, "jobTitle", EmptyStr)),
              L("</div>\n"),
              L("  <div itemprop=\"description\">"),
              Escaped(<<"description">>, PyGet(d, "description", EmptyStr)),
              L("</div>\n"),
              L("  <div itemprop=\"email\">"),
              Escaped(<<"email">>, PyGet(d, "email", EmptyStr)),
              L("</div>\n"),
              L("  <div itemprop=\"telephone\">"),
              Escaped(<<"telephone">>, PyGet(d, "telephone", EmptyStr)),
              L("</div>\n"),
              L("</div>") >>)

\* a slip of lines 569-570: an unknown type is rendered as a FAQ page
generate_microdata_FAQForUnknown(d, stype) ==
    CASE stype = "Article" -> ArticleMarkup(d)
      [] stype = "Product" -> ProductMarkup(d)
      [] stype = "Breadcrumb" -> BreadcrumbMarkup(d)
      [] stype = "LocalBusiness" -> LocalBusinessMarkup(d)
      [] stype = "HowTo" -> HowToMarkup(d)
      [] stype = "Recipe" -> RecipeMarkup(d)
      [] stype = "Person" -> PersonMarkup(d)
      [] OTHER -> FAQPageMarkup(d)

\* lines 464-570
generate_microdata(d, stype) ==
    CASE stype = "FAQPage" -> FAQPageMarkup(d)
      [] stype = "Article" -> ArticleMarkup(d)
      [] stype = "Product" -> ProductMarkup(d)
      [] stype = "Breadcrumb" -> BreadcrumbMarkup(d)
      [] stype = "LocalBusiness" -> LocalBusinessMarkup(d)
      [] stype = "HowTo" -> HowToMarkup(d)
      [] stype = "Recipe" -> RecipeMarkup(d)
      [] stype = "Person" -> PersonMarkup(d)
      [] OTHER -> Markup(<<L("Microdata not available for this schema type")>>)

(***************************************************************************)
(* The parser run: a text is typed line by line, then parsed.              *)
(***************************************************************************)
\* The lines a text is made of: marker lines in both cases, with and
\* without surrounding blanks, an empty question, a blank line, a line of
\* blanks and a line without marker.
LineVocabulary ==
    { <<"Q", ":", "x">>,
      <<"q", ":", " ", "x", " ">>,
      <<"A", ":", "y">>,
      <<"a", ":", " ", "y">>,
      <<"Q", ":">>,
      <<>>,
      <<" ">>,
      <<"z">> }

\* the variables of a run that is not the one specified stay as they are
RenderIdle ==
    /\ schema_type = "FAQPage"
    /\ data = EmptyObj
    /\ render_pc = "idle"
    /\ json_ld = [exc |-> "not rendered"]
    /\ microdata = [exc |-> "not rendered"]

HandlerIdle ==
    /\ api_key = ""
    /\ input_mode = "Text Input"
    /\ content_input = <<>>
    /\ url_input = <<>>
    /\ format_option = "JSON-LD"
    /\ pc = "idle"
    /\ final_content = <<>>
    /\ fetch_error = <<>>
    /\ error = <<>>
    /\ output = [exc |-> "not rendered"]
    /\ download = [file_name |-> <<>>]
    /\ messages = <<>>
    /\ calls = <<>>

FaqIdle ==
    /\ input_lines = <<>>
    /\ faq_pc = "idle"
    /\ faqs = <<>>

EscapeIdle ==
    /\ raw_text = <<>>
    /\ escaped_text = <<>>
    /\ esc_pc = "idle"

FaqInit ==
    /\ input_lines = <<>>
    /\ faq_pc = "input"
    /\ faqs = <<>>
    /\ RenderIdle
    /\ HandlerIdle
    /\ EscapeIdle

TypeLine(line) ==
    /\ faq_pc = "input"
    /\ Len(input_lines) < MaxLines
    /\ input_lines' = Append(input_lines, line)
    /\ UNCHANGED <<faq_pc, faqs, renderVars, handlerVars, escVars>>

Parse ==
    /\ faq_pc = "input"
    /\ faqs' = parse_faq_input(JoinLines(input_lines))
    /\ faq_pc' = "parsed"
    /\ UNCHANGED <<input_lines, renderVars, handlerVars, escVars>>

FaqNext ==
    \/ \E line \in LineVocabulary : TypeLine(line)
    \/ Parse

SpecFaq == FaqInit /\ [][FaqNext]_vars

(***************************************************************************)
(* The rendering run: a canonical data mapping is filled field by field    *)
(* for a schema type, then rendered in both encodings.                     *)
(***************************************************************************)
\* the fields the definition of a schema type reads
OwnKeys(stype) ==
    CASE stype = "FAQPage" -> {"mainEntity"}
      [] stype = "Article" ->
            {"headline", "author", "datePublished", "dateModified",
             "description", "articleBody", "image"}
      [] stype = "Product" ->
            {"name", "description", "image", "brand", "offers", "aggregateRating"}
      [] stype = "Breadcrumb" -> {"itemListElement"}
      [] stype = "LocalBusiness" ->
            {"name", "description", "image", "address", "telephone",
             "openingHours", "priceRange"}
      [] stype = "HowTo" -> {"name", "description", "totalTime", "step"}
      [] stype = "Recipe" ->
            {"name", "description", "image", "author", "prepTime", "cookTime",
             "totalTime", "recipeYield", "recipeIngredient", "recipeInstructions"}
      [] stype = "Person" ->
            {"name", "jobTitle", "description", "image", "url", "email",
             "telephone", "address"}
      [] OTHER -> {}

AllKeys == UNION {OwnKeys(stype) : stype \in SchemaTypes}

\* a schema type outside the enumerated set
UnknownType == "Event"

\* a text with each of the five characters escape_html replaces
SpecialText == Str(<<"&", "<", ">", "\"", "'">>)

QA(n) == Obj([question |-> Lit("question" \o n), answer |-> Lit("answer" \o n)])
Crumb(n, pos) == Obj([position |-> pos, name |-> Lit("crumb" \o n), item |-> Lit("url" \o n)])
Step(n) == Obj([name |-> Lit("step" \o n), text |-> Lit("text" \o n)])

\* the values a field takes in the model: a sample text named after the
\* field; for some fields a text of special characters or a number; for a
\* nested object and a list also the empty one, a partial one, and for a
\* list one whose entry lacks a key
Candidates(k) ==
    CASE k \in {"headline", "datePublished"} -> {Lit(k), SpecialText}
      [] k = "offers" ->
            {EmptyObj,
             Obj([price |-> Lit("9.99")]),
             Obj([price |-> Num(9), priceCurrency |-> Lit("EUR"),
                  availability |-> Lit("OutOfStock")]),
             Obj([price |-> SpecialText])}
      [] k = "aggregateRating" ->
            {EmptyObj,
             Obj([ratingValue |-> Lit("4.5")]),
             Obj([ratingValue |-> Num(4), reviewCount |-> Num(250)])}
      [] k = "address" ->
            {EmptyObj,
             Obj([addressLocality |-> Lit("city")]),
             Obj([streetAddress |-> Lit("street"), addressLocality |-> Lit("city"),
                  addressRegion |-> Lit("region"), postalCode |-> Lit("zip"),
                  addressCountry |-> Lit("country")])}
      [] k = "mainEntity" ->
            {EmptyLst, Lst(<<QA("1")>>), Lst(<<QA("1"), QA("2")>>),
             Lst(<<Obj([question |-> Lit("question1")])>>)}
      [] k = "itemListElement" ->
            {EmptyLst,
             Lst(<<Crumb("1", Num(1)), Crumb("2", Num(2))>>),
             Lst(<<Crumb("1", SpecialText)>>),
             Lst(<<Obj([name |-> Lit("crumb1")])>>)}
      [] k = "step" ->
            {EmptyLst, Lst(<<Step("1"), Step("2")>>),
             Lst(<<Obj([name |-> Lit("step1")])>>)}
      [] k = "recipeIngredient" ->
            {EmptyLst, Lst(<<Lit("flour"), Lit("eggs")>>)}
      [] k = "recipeInstructions" ->
            {EmptyLst, Lst(<<Step("1")>>), Lst(<<Obj([text |-> Lit("text1")])>>)}
      [] OTHER -> {Lit(k)}

\* the mappings of the model: any fields of the type's own, or at most
\* MaxFields fields of any type
InModel(o, stype) ==
    DOMAIN o \subseteq OwnKeys(stype) \/ Cardinality(DOMAIN o) <= MaxFields

NotRendered == [exc |-> "not rendered"]

RenderInit ==
    /\ schema_type \in SchemaTypes \cup {UnknownType}
    /\ data = EmptyObj
    /\ render_pc = "build"
    /\ json_ld = NotRendered
    /\ microdata = NotRendered
    /\ FaqIdle
    /\ HandlerIdle
    /\ EscapeIdle

SetField(k, v) ==
    /\ render_pc = "build"
    /\ k \notin DOMAIN data.o
    /\ InModel((k :> v) @@ data.o, schema_type)
    /\ data' = Obj((k :> v) @@ data.o)
    /\ UNCHANGED <<schema_type, render_pc, json_ld, microdata, faqVars, handlerVars, escVars>>

Render ==
    /\ render_pc = "build"
    /\ json_ld' = generate_json_ld(data, schema_type)
    /\ microdata' = generate_microdata(data, schema_type)
    /\ render_pc' = "rendered"
    /\ UNCHANGED <<schema_type, data, faqVars, handlerVars, escVars>>

\* every field with every value it takes in the model
FieldChoices ==
    UNION {{[k |-> k, v |-> v] : v \in Candidates(k)} : k \in AllKeys}

RenderNext ==
    \/ \E c \in FieldChoices : SetField(c.k, c.v)
    \/ Render

SpecRender == RenderInit /\ [][RenderNext]_vars

(***************************************************************************)
(* The escaping run: a text is typed character by character, then escaped. *)
(***************************************************************************)
\* the characters of a text: the five escape_html replaces, a letter, and
\* the semicolon that ends an entity
TextAlphabet == {"&", "<", ">", "\"", "'", "a", ";"}

EscapeInit ==
    /\ raw_text = <<>>
    /\ escaped_text = <<>>
    /\ esc_pc = "input"
    /\ FaqIdle
    /\ RenderIdle
    /\ HandlerIdle

TypeChar(c) ==
    /\ esc_pc = "input"
    /\ Len(raw_text) < MaxText
    /\ raw_text' = Append(raw_text, c)
    /\ UNCHANGED <<escaped_text, esc_pc, faqVars, renderVars, handlerVars>>

Escape ==
    /\ esc_pc = "input"
    /\ escaped_text' = escape_html(raw_text)
    /\ esc_pc' = "escaped"
    /\ UNCHANGED <<raw_text, faqVars, renderVars, handlerVars>>

EscapeNext ==
    \/ \E c \in TextAlphabet : TypeChar(c)
    \/ Escape

SpecEscape == EscapeInit /\ [][EscapeNext]_vars

(***************************************************************************)
(* The two collaborators of the handler.                                   *)
(***************************************************************************)
ValidSchemes == {"http://", "https://"}

\* the URLs of the model, a scheme token and the rest
UrlCandidates ==
    { <<>>, <<" ">>, <<"ftp://", "host">>, <<"host">>,
      <<"http://", "host">>, <<"https://", "host">> }

\* what the network and the page do to a request: out of the program's hands
FetchOutcomes == {"page", "network error", "bad status", "bad content"}

\* the text extracted from a page: its non-empty lines, stripped
PageTexts == { <<>>, <<"Q", ":", "x", "\n", "A", ":", "y">> }

NoError == <<>>

\* lines 16-46: (content, None) or (None, message)
fetch_url_content(url, outcome, page) ==
    IF ~(url # <<>> /\ Head(url) \in ValidSchemes)
    THEN [content |-> Null,
          error |-> <<"Invalid URL: Only http:// and https:// protocols are supported">>]
    ELSE IF outcome \in {"network error", "bad status"}
    THEN [content |-> Null, error |-> <<"Error fetching URL: ", outcome>>]
    ELSE IF outcome = "bad content"
    THEN [content |-> Null, error |-> <<"Error processing URL content: ", outcome>>]
    ELSE [content |-> Str(page), error |-> NoError]

\* The reply of the remote service is a text, kept as its tokens: a code
\* fence (three backquotes) with or without the json tag, white space, a
\* JSON value, or words.
FenceJson == [k |-> "fence json"]
Fence == [k |-> "fence"]
Blank == [k |-> "ws"]
Words == [k |-> "words"]
JsonText(v) == [k |-> "json", v |-> v]

\* response.text.strip() and line 273
RECURSIVE StripBlanks(_)
StripBlanks(r) ==
    IF r # <<>> /\ Head(r).k = "ws" THEN StripBlanks(Tail(r))
    ELSE IF r # <<>> /\ r[Len(r)].k = "ws" THEN StripBlanks(SubSeq(r, 1, Len(r) - 1))
    ELSE r

\* lines 267-272: the fences are cut off
CutFences(r) ==
    LET opened == IF r # <<>> /\ Head(r).k \in {"fence json", "fence"} THEN Tail(r) ELSE r
    IN  IF opened # <<>> /\ opened[Len(opened)].k = "fence"
        THEN SubSeq(opened, 1, Len(opened) - 1)
        ELSE opened

\* line 276: json.loads gives the value of a text that is one JSON value
json_loads(r) ==
    IF Len(r) = 1 /\ r[1].k = "json" THEN Ok(r[1].v) ELSE Raise("JSONDecodeError")

\* lines 49-281: (data, None) or (None, message); service is what the
\* remote call does, "reply" or the exception it raises
generate_schema_with_ai(service, reply) ==
    IF service # "reply"
    THEN [data |-> Null, error |-> <<"AI parsing error: ", service>>]
    ELSE LET parsed == json_loads(StripBlanks(CutFences(StripBlanks(reply)))) IN
         IF parsed.exc # "none"
         THEN [data |-> Null, error |-> <<"Failed to parse AI response as JSON: ", parsed.exc>>]
         ELSE [data |-> parsed.v, error |-> NoError]

\* what the remote call does
ServiceOutcomes == {"reply", "service error"}

\* the JSON values the service answers with in the model
ReplyValues ==
    { EmptyObj, EmptyLst, Null, Lst(<<Num(1)>>),
      Obj([mainEntity |-> EmptyLst]),
      Obj([mainEntity |-> Lst(<<QA("1")>>)]),
      Obj([mainEntity |-> Lst(<<Obj([question |-> Lit("question1")])>>)]),
      Obj([headline |-> Lit("headline"), datePublished |-> SpecialText]),
      Obj([name |-> Lit("name"), offers |-> Lit("cheap")]) }

\* the replies of the model: a bare value, a fenced one, words, nothing
Replies ==
    {<<JsonText(v)>> : v \in ReplyValues}
    \cup {<<FenceJson, Blank, JsonText(v), Blank, Fence>> : v \in ReplyValues}
    \cup {<<Fence, Blank, JsonText(v), Blank, Fence, Blank>> : v \in ReplyValues}
    \cup {<<Words>>, <<>>, <<Words, JsonText(EmptyObj)>>}

(***************************************************************************)
(* The "Generate Schema" button handler, lines 741-791.                    *)
(***************************************************************************)
\* bool(v)
Truthy(v) ==
    CASE v.t = "null" -> FALSE
      [] v.t = "str" -> v.s # <<>>
      [] v.t = "num" -> v.n # 0
      [] v.t = "obj" -> DOMAIN v.o # {}
      [] v.t = "list" -> v.l # <<>>

ContentCandidates == { <<>>, <<" ">>, <<"Q", ":", "x", "\n", "A", ":", "y">> }

Shown(kind, text) == [kind |-> kind, text |-> text]

NoOutput == [exc |-> "not rendered"]
NoDownload == [file_name |-> <<>>]

\* schema_type.lower()
Lower(stype) ==
    CASE stype = "FAQPage" -> "faqpage"
      [] stype = "Article" -> "article"
      [] stype = "Product" -> "product"
      [] stype = "Breadcrumb" -> "breadcrumb"
      [] stype = "LocalBusiness" -> "localbusiness"
      [] stype = "HowTo" -> "howto"
      [] stype = "Recipe" -> "recipe"
      [] stype = "Person" -> "person"

\* lines 618-738: the form as the user left it
Init ==
    /\ schema_type \in SchemaTypes
    /\ api_key \in {"", "key"}
    /\ input_mode \in {"Text Input", "URL Input"}
    /\ \/ input_mode = "Text Input" /\ content_input \in ContentCandidates
                                    /\ url_input = <<>>
       \/ input_mode = "URL Input" /\ content_input = <<>>
                                   /\ url_input \in UrlCandidates
    /\ format_option \in {"JSON-LD", "HTML Microdata"}
    /\ pc = "form"
    /\ final_content = <<>>
    /\ fetch_error = NoError
    /\ error = NoError
    /\ data = Null
    /\ output = NoOutput
    /\ download = NoDownload
    /\ messages = <<>>
    /\ calls = <<>>
    /\ FaqIdle
    /\ render_pc = "idle"
    /\ json_ld = NotRendered
    /\ microdata = NotRendered
    /\ EscapeIdle

\* lines 741-751: the button is pressed and the inputs are validated
Click ==
    /\ pc = "form"
    /\ IF input_mode = "Text Input" /\ Strip(content_input) = <<>>
       THEN /\ messages' = Append(messages,
                   Shown("error", "Please enter some content to generate schema."))
            /\ pc' = "done"
            /\ UNCHANGED final_content
       ELSE IF input_mode = "URL Input" /\ Strip(url_input) = <<>>
       THEN /\ messages' = Append(messages,
                   Shown("error", "Please enter a URL to fetch content from."))
            /\ pc' = "done"
            /\ UNCHANGED final_content
       ELSE IF api_key = ""
       THEN /\ messages' = Append(messages,
                   Shown("error", "Please provide a Google Gemini API key for AI-powered schema generation."))
            /\ pc' = "done"
            /\ UNCHANGED final_content
       ELSE /\ final_content' = content_input
            /\ pc' = IF input_mode = "URL Input" THEN "fetch" ELSE "extract"
            /\ UNCHANGED messages
    /\ UNCHANGED <<formVars, fetch_error, error, data, output, download, calls,
                   faqVars, render_pc, json_ld, microdata, escVars>>

\* a slip of line 757: the failure is shown and the run goes on
Fetch_NoStop(outcome, page) ==
    /\ pc = "fetch"
    /\ LET got == fetch_url_content(url_input, outcome, page) IN
       /\ calls' = Append(calls, "fetch_url_content")
       /\ fetch_error' = got.error
       /\ IF got.error # NoError
          THEN /\ messages' = Append(messages, Shown("error", "fetch_error"))
               /\ pc' = "extract"
               /\ UNCHANGED final_content
          ELSE /\ final_content' = got.content.s
               /\ messages' = Append(messages,
                      Shown("success", "Successfully fetched content from URL"))
               /\ pc' = "extract"
    /\ UNCHANGED <<formVars, error, data, output, download,
                   faqVars, render_pc, json_ld, microdata, escVars>>

\* lines 752-762: the page is fetched; a failure is shown and st.stop()
\* ends the run
Fetch(outcome, page) ==
    /\ pc = "fetch"
    /\ LET got == fetch_url_content(url_input, outcome, page) IN
       /\ calls' = Append(calls, "fetch_url_content")
       /\ fetch_error' = got.error
       /\ IF got.error # NoError
          THEN /\ messages' = Append(messages, Shown("error", "fetch_error"))
               /\ pc' = "stopped"
               /\ UNCHANGED final_content
          ELSE /\ final_content' = got.content.s
               /\ messages' = Append(messages,
                      Shown("success", "Successfully fetched content from URL"))
               /\ pc' = "extract"
    /\ UNCHANGED <<formVars, error, data, output, download,
                   faqVars, render_pc, json_ld, microdata, escVars>>

\* lines 764-773: the service is asked, and its answer looked at
Extract(service, reply) ==
    /\ pc = "extract"
    /\ LET got == generate_schema_with_ai(service, reply) IN
       /\ calls' = Append(calls, "generate_schema_with_ai")
       /\ data' = got.data
       /\ error' = got.error
       /\ IF got.error # NoError
          THEN /\ messages' = Append(messages,
                      Shown("error", "Schema generation failed: {error}"))
               /\ pc' = "done"
          ELSE IF ~Truthy(got.data)
          THEN /\ messages' = Append(messages,
                      Shown("error", "Could not generate schema. Please check your input and try again."))
               /\ pc' = "done"
          ELSE /\ messages' = Append(messages,
                      Shown("info", "AI successfully generated {schema_type} schema"))
               /\ pc' = "render"
    /\ UNCHANGED <<formVars, final_content, fetch_error, output, download,
                   faqVars, render_pc, json_ld, microdata, escVars>>

\* lines 775-791: the schema is rendered, shown and offered for download;
\* an exception of the renderer is caught by nothing
Show ==
    /\ pc = "render"
    /\ LET json == format_option = "JSON-LD"
           got == IF json THEN generate_json_ld(data, schema_type)
                          ELSE generate_microdata(data, schema_type)
       IN
       /\ calls' = Append(calls, IF json THEN "generate_json_ld"
                                         ELSE "generate_microdata")
       /\ output' = got
       /\ IF got.exc # "none"
          THEN /\ pc' = "crashed"
               /\ UNCHANGED <<download, messages>>
          ELSE /\ download' =
                     [file_name |-> <<Lower(schema_type), "_schema.",
                                      IF json THEN "json" ELSE "html">>,
                      mime |-> IF json THEN "application/json" ELSE "text/html",
                      data |-> got.v]
               /\ messages' = Append(messages,
                      Shown("success", "Generated {schema_type} schema successfully"))
               /\ pc' = "done"
    /\ UNCHANGED <<formVars, final_content, fetch_error, error, data,
                   faqVars, render_pc, json_ld, microdata, escVars>>

Next ==
    \/ Click
    \/ \E outcome \in FetchOutcomes : \E page \in PageTexts : Fetch(outcome, page)
    \/ \E service \in ServiceOutcomes : \E reply \in Replies : Extract(service, reply)
    \/ Show

Spec == Init /\ [][Next]_vars

(***************************************************************************)
(* What the claims about the parser speak of, stated on the typed lines    *)
(* and not through the parser: the blocks of a text are its maximal runs   *)
(* of non-empty lines, the empty lines between them being the blank lines. *)
(***************************************************************************)
RECURSIVE BlocksAcc(_, _)
BlocksAcc(lines, cur) ==
    IF lines = <<>> THEN (IF cur = <<>> THEN <<>> ELSE <<cur>>)
    ELSE IF Head(lines) = <<>>
         THEN (IF cur = <<>> THEN <<>> ELSE <<cur>>) \o BlocksAcc(Tail(lines), <<>>)
         ELSE BlocksAcc(Tail(lines), Append(cur, Head(lines)))

BlocksOf(lines) == BlocksAcc(lines, <<>>)

NonBlank(s) == \E i \in 1..Len(s) : s[i] \notin Whitespace

\* the line starts with one of the letters and a colon
HasMarker(line, letters) ==
    LET t == LStrip(line) IN Len(t) >= 2 /\ t[1] \in letters /\ t[2] = ":"

\* the text a marker line carries
TextOf(line) == Strip(DropFirst(LStrip(line), 2))

WellFormedBlock(b) ==
    /\ Len(b) = 2
    /\ HasMarker(b[1], {"Q", "q"}) /\ NonBlank(TextOf(b[1]))
    /\ HasMarker(b[2], {"A", "a"}) /\ NonBlank(TextOf(b[2]))

\* a block with a Q: line and no A: line
LacksAnswerLine(b) ==
    /\ \E i \in 1..Len(b) : HasMarker(b[i], {"Q", "q"})
    /\ \A i \in 1..Len(b) : ~HasMarker(b[i], {"A", "a"})

AllWellFormed(blocks) == \A i \in 1..Len(blocks) : WellFormedBlock(blocks[i])

ItemOfBlock(b) == [question |-> TextOf(b[1]), answer |-> TextOf(b[2])]

C2_OnlyCompleteItems ==
    LET blocks == BlocksOf(input_lines)
        good == {i \in 1..Len(blocks) : WellFormedBlock(blocks[i])}
    IN  faq_pc = "parsed" =>
          /\ \A i \in 1..Len(faqs) :
                faqs[i].question # <<>> /\ faqs[i].answer # <<>>
          /\ (\A i \in 1..Len(blocks) :
                 WellFormedBlock(blocks[i]) \/ LacksAnswerLine(blocks[i]))
             => Len(faqs) = Cardinality(good)

C2_Witness ==
    LET blocks == BlocksOf(input_lines) IN
    /\ faq_pc = "parsed"
    /\ Len(blocks) = 2
    /\ \E i, j \in 1..2 :
          WellFormedBlock(blocks[i]) /\ LacksAnswerLine(blocks[j])
    /\ Len(faqs) = 1

(***************************************************************************)
(* What the claims about the renderers speak of.                           *)
(***************************************************************************)
JStr(s) == [j |-> "string", s |-> s]
JArr(l) == [j |-> "array", l |-> l]

Rendered == render_pc = "rendered"
JsonOk == Rendered /\ json_ld.exc = "none"
MarkupOk == Rendered /\ microdata.exc = "none"

\* the field values a JSON document encodes: each leaf text or number with
\* the keys that lead to it (the type and context tags are no field values)
RECURSIVE JsonLeaves(_, _)
JsonLeaves(v, path) ==
    CASE v.j = "string" -> {<<path, v.s>>}
      [] v.j = "number" -> {<<path, <<ToString(v.n)>> >>}
      [] v.j = "null" -> {<<path, <<"null">> >>}
      [] v.j = "object" ->
            UNION {JsonLeaves(v.o[k], Append(path, k)) :
                       k \in DOMAIN v.o \ {"@type", "@context"}}
      [] v.j = "array" -> UNION {JsonLeaves(v.l[i], path) : i \in 1..Len(v.l)}

\* the field values a markup encodes
MarkupValues(pieces) ==
    {<<pieces[i].prop, pieces[i].text>> :
         i \in {n \in 1..Len(pieces) : pieces[n].kind = "val"}}

\* the same field with the same value, escaped or not
SameModuloEscaping(a, b) ==
    /\ a[1] = b[1]
    /\ a[2] = b[2] \/ escape_html(a[2]) = b[2] \/ a[2] = escape_html(b[2])

\* C3: for the same data and the same schema type the two encodings hold
\* the same field values, up to escaping: every field value of the JSON-LD
\* is in the microdata and every field value of the microdata is in the
\* JSON-LD.
C3_SameFieldValues ==
    (JsonOk /\ MarkupOk /\ schema_type \in SchemaTypes) =>
        LET js == JsonLeaves(json_ld.v, <<>>)
            ms == MarkupValues(microdata.v)
        IN  /\ \A a \in js : \E b \in ms : SameModuloEscaping(a, b)
            /\ \A b \in ms : \E a \in js : SameModuloEscaping(a, b)

\* a text that puts no markup character of its own into the page: none of
\* < > " ' and no & other than the one that starts an entity
IsEntityAt(s, i) ==
    \E e \in {AmpEntity, LtEntity, GtEntity, QuotEntity, AposEntity} :
        i + Len(e) - 1 <= Len(s) /\ SubSeq(s, i, i + Len(e) - 1) = e

SafeText(s) ==
    \A i \in 1..Len(s) :
        /\ s[i] \notin {"<", ">", "\"", "'"}
        /\ s[i] = "&" => IsEntityAt(s, i)

\* C4: every value generate_microdata inserts into the markup went through
\* escape_html: no inserted value holds a raw < > " ' or an unescaped &.
C4_ValuesEscaped ==
    MarkupOk =>
        \A i \in 1..Len(microdata.v) :
            microdata.v[i].kind = "val" => SafeText(microdata.v[i].text)

\* C9 as claimed: the document's @context is "https://schema.org" and its
\* @type is the schema type requested, for each of the eight types.
C9_TypeIsRequestedType ==
    (JsonOk /\ schema_type \in SchemaTypes) =>
        /\ json_ld.v.o["@context"] = JStr(<<"https://schema.org">>)
        /\ json_ld.v.o["@type"] = JStr(<<schema_type>>)

\* the schema.org name of a schema type of the selector
SchemaOrgName(stype) == IF stype = "Breadcrumb" THEN "BreadcrumbList" ELSE stype

\* C9, amended: the document's @context is "https://schema.org" and its
\* @type is the schema type requested, except that a Breadcrumb request
\* gives the @type "BreadcrumbList".
C9_ContextAndType ==
    (JsonOk /\ schema_type \in SchemaTypes) =>
        /\ json_ld.v.j = "object"
        /\ json_ld.v.o["@context"] = JStr(<<"https://schema.org">>)
        /\ json_ld.v.o["@type"] = JStr(<<SchemaOrgName(schema_type)>>)

C9_Witness ==
    /\ JsonOk
    /\ schema_type = "Breadcrumb"
    /\ "itemListElement" \in DOMAIN data.o
    /\ json_ld.v.o["@type"] = JStr(<<"BreadcrumbList">>)

\* the keys of a document and of its nested objects, each with the keys
\* that lead to it (the entries of a list are not looked into)
RECURSIVE KeyPaths(_, _)
KeyPaths(v, path) ==
    IF v.j = "object"
    THEN UNION {{Append(path, k)} \cup KeyPaths(v.o[k], Append(path, k)) :
                    k \in DOMAIN v.o}
    ELSE {}

\* the value at a path of keys
RECURSIVE JsonAt(_, _)
JsonAt(v, path) == IF path = <<>> THEN v ELSE JsonAt(v.o[Head(path)], Tail(path))

\* every entry of the lists the schemas index has the keys they read
EntryKeys(k) ==
    CASE k = "mainEntity" -> {"question", "answer"}
      [] k = "itemListElement" -> {"position", "name", "item"}
      [] k \in {"step", "recipeInstructions"} -> {"name", "text"}
      [] OTHER -> {}

CompleteEntries(o) ==
    \A k \in DOMAIN o :
        EntryKeys(k) # {} =>
            /\ o[k].t = "list"
            /\ \A i \in 1..Len(o[k].l) :
                  o[k].l[i].t = "obj" /\ EntryKeys(k) \subseteq DOMAIN o[k].l[i].o

\* the documented defaults: where a field of the mapping goes in the
\* document of a schema type, and what stands there when it is absent
NestedKeys(stype) ==
    CASE stype = "Product" -> {"offers", "aggregateRating"}
      [] stype \in {"LocalBusiness", "Person"} -> {"address"}
      [] OTHER -> {}

ListKeys == {"mainEntity", "itemListElement", "step", "recipeIngredient",
             "recipeInstructions"}

SubDefaults(stype, k) ==
    CASE k = "offers" ->
            [price |-> JStr(<<"0.00">>), priceCurrency |-> JStr(<<"USD">>),
             availability |-> JStr(<<"https://schema.org/", "InStock">>)]
      [] k = "aggregateRating" ->
            [ratingValue |-> JStr(<<"0.0">>), reviewCount |-> JStr(<<"0">>)]
      [] k = "address" /\ stype = "LocalBusiness" ->
            [streetAddress |-> JStr(<<>>), addressLocality |-> JStr(<<>>),
             addressRegion |-> JStr(<<>>), postalCode |-> JStr(<<>>),
             addressCountry |-> JStr(<<>>)]
      [] k = "address" /\ stype = "Person" ->
            [addressLocality |-> JStr(<<>>), addressRegion |-> JStr(<<>>),
             addressCountry |-> JStr(<<>>)]

\* where the text of a scalar field stands in the document
ScalarPath(k) == IF k \in {"author", "brand"} THEN <<k, "name">> ELSE <<k>>

DefaultsInPlace(doc, o, stype) ==
    \A k \in OwnKeys(stype) :
        IF k \in NestedKeys(stype)
        THEN \A sub \in DOMAIN SubDefaults(stype, k) :
                (k \notin DOMAIN o \/ sub \notin DOMAIN o[k].o)
                    => JsonAt(doc, <<k, sub>>) = SubDefaults(stype, k)[sub]
        ELSE k \notin DOMAIN o =>
                IF k \in ListKeys
                THEN JsonAt(doc, <<k>>) = JArr(<<>>)
                ELSE JsonAt(doc, ScalarPath(k)) = JStr(<<>>)

Called(f) == \E i \in 1..Len(calls) : calls[i] = f
ErrorShown == \E i \in 1..Len(messages) : messages[i].kind = "error"
RenderCalled == Called("generate_json_ld") \/ Called("generate_microdata")
RunEnded == pc \in {"done", "stopped", "crashed"}

\* the service was asked and failed, or answered with what is no JSON
AdapterFailed == Called("generate_schema_with_ai") /\ error # NoError

\* C5: when the adapter fails or its reply cannot be parsed, a FAQPage
\* request recovers by running parse_faq_input on the input text, and a
\* request of any other type shows the failure as an error.
C5_FallbackForFAQ ==
    (RunEnded /\ AdapterFailed) =>
        IF schema_type = "FAQPage"
        THEN Called("parse_faq_input")
        ELSE ErrorShown

\* the service answered, and its answer holds no item
ZeroItems ==
    /\ Called("generate_schema_with_ai")
    /\ error = NoError
    /\ \/ ~Truthy(data)
       \/ /\ schema_type = "FAQPage"
          /\ data.t = "obj"
          /\ "mainEntity" \in DOMAIN data.o
          /\ data.o["mainEntity"] = EmptyLst

\* C6: when extraction yields zero items the request ends with a message,
\* no renderer is called and nothing is offered for download.
C6_NoRenderOnZeroItems ==
    ZeroItems =>
        /\ ~RenderCalled
        /\ download = NoDownload
        /\ RunEnded => ErrorShown

\* C7: no step of a request raises an exception that nothing handles, and a
\* request that ends without a schema has shown an error text.
C7_NoUnhandledException ==
    /\ pc # "crashed"
    /\ (RunEnded /\ download = NoDownload) => ErrorShown

\* C8: once fetch_url_content has reported a failure the error is shown and
\* the request has stopped: the adapter is not called, nothing is rendered
\* and nothing is offered for download.
C8_FetchFailureStops ==
    fetch_error # NoError =>
        /\ pc = "stopped"
        /\ messages # <<>> /\ messages[Len(messages)].kind = "error"
        /\ ~Called("generate_schema_with_ai")
        /\ ~RenderCalled
        /\ output = NoOutput
        /\ download = NoDownload

C8_Witness ==
    /\ pc = "stopped"
    /\ input_mode = "URL Input"
    /\ Head(url_input) \in ValidSchemes
    /\ fetch_error # NoError
    /\ calls = <<"fetch_url_content">>

(***************************************************************************)
(* More of what the claims about the renderers speak of.                   *)
(***************************************************************************)
\* the fields of a Product document that look like numbers
NumericPaths ==
    { <<"offers", "price">>, <<"aggregateRating", "ratingValue">>,
      <<"aggregateRating", "reviewCount">> }

\* C11: in the JSON document of a Product the numeric-looking fields
\* offers.price, aggregateRating.ratingValue and aggregateRating.reviewCount
\* are JSON strings, never JSON numbers, whatever the mapping holds for them.
C11_NumericFieldsAreStrings ==
    (JsonOk /\ schema_type = "Product") =>
        \A path \in NumericPaths : JsonAt(json_ld.v, path).j = "string"

\* the fallback literal of generate_microdata
FallbackMarkup == <<[kind |-> "lit", lit |-> "Microdata not available for this schema type"]>>

\* C13: for a schema type outside the eight enumerated ones
\* generate_microdata returns the literal fallback text, whatever the
\* mapping, and raises nothing.
C13_FallbackLiteral ==
    (Rendered /\ schema_type \notin SchemaTypes) =>
        /\ microdata.exc = "none"
        /\ microdata.v = FallbackMarkup

C13_Witness ==
    /\ Rendered
    /\ schema_type = UnknownType
    /\ "mainEntity" \in DOMAIN data.o
    /\ data.o["mainEntity"] = Lst(<<Obj([question |-> Lit("question1")])>>)
    /\ microdata = Ok(FallbackMarkup)

\* C14: for a schema type outside the eight enumerated ones generate_json_ld
\* returns exactly what it returns for "FAQPage" on the same mapping.
C14_UnknownTypeGivesFAQ ==
    (Rendered /\ schema_type \notin SchemaTypes) =>
        json_ld = generate_json_ld(data, "FAQPage")

C14_Witness ==
    /\ JsonOk
    /\ schema_type = UnknownType
    /\ "mainEntity" \in DOMAIN data.o
    /\ Len(data.o["mainEntity"].l) = 2
    /\ json_ld.v.o["@type"] = JStr(<<"FAQPage">>)
    /\ Len(json_ld.v.o["mainEntity"].l) = 2

\* the mapping without the fields that belong only to other schema types
OwnPart(o, stype) == [k \in DOMAIN o \cap OwnKeys(stype) |-> o[k]]

\* C18: the result of generate_json_ld for a schema type depends only on
\* the fields the type's definition reads: with the fields of other types
\* taken away the call gives the same result, and it does not fail because
\* of them.
C18_OnlyOwnFields ==
    (Rendered /\ schema_type \in SchemaTypes) =>
        json_ld = generate_json_ld(Obj(OwnPart(data.o, schema_type)), schema_type)

(***************************************************************************)
(* More of what the claims about the parser speak of.                      *)
(***************************************************************************)
\* C15: parse_faq_input returns a list of question/answer items for every
\* text, and the empty list for a text that is empty or holds white space
\* only.
C15_EmptyInputEmptyList ==
    faq_pc = "parsed" =>
        /\ DOMAIN faqs = 1..Len(faqs)
        /\ \A i \in 1..Len(faqs) : DOMAIN faqs[i] = {"question", "answer"}
        /\ ~NonBlank(JoinLines(input_lines)) => faqs = <<>>

C15_Witness ==
    /\ faq_pc = "parsed"
    /\ input_lines = << <<" ">>, <<>>, <<" ">> >>
    /\ faqs = <<>>

\* the other case of a letter of a marker
OtherCase(c) ==
    CASE c = "Q" -> "q"
      [] c = "q" -> "Q"
      [] c = "A" -> "a"
      [] c = "a" -> "A"

\* the line with its marker, if it has one, written in the other case
FlipMarker(line) ==
    IF HasMarker(line, {"Q", "q", "A", "a"})
    THEN LET lead == Len(line) - Len(LStrip(line)) IN
         [line EXCEPT ![lead + 1] = OtherCase(line[lead + 1])]
    ELSE line

\* the characters of a text
CharsOf(s) == {s[i] : i \in 1..Len(s)}

\* C16: writing the marker of any one line in the other case (q: for Q:,
\* a: for A: and back) leaves the returned list as it is, and the texts of
\* the items keep the case they were typed in: their characters are
\* characters of the input, or the blank that joins two lines.  Stated for
\* the texts of up to MaxFlipLines lines.
C16_MarkerCaseIgnored ==
    (faq_pc = "parsed" /\ Len(input_lines) <= MaxFlipLines) =>
        /\ \A n \in {m \in 1..Len(input_lines) :
                         FlipMarker(input_lines[m]) # input_lines[m]} :
              parse_faq_input(JoinLines([input_lines EXCEPT ![n] = FlipMarker(@)]))
                  = faqs
        /\ \A i \in 1..Len(faqs) :
              CharsOf(faqs[i].question) \cup CharsOf(faqs[i].answer)
                  \subseteq CharsOf(JoinLines(input_lines)) \cup {" "}

C16_Witness ==
    /\ faq_pc = "parsed"
    /\ input_lines = << <<"q", ":", " ", "x", " ">>, <<"A", ":", "y">> >>
    /\ faqs = <<[question |-> <<"x">>, answer |-> <<"y">>]>>

\* the lines of a block without the lines that carry no marker and stand
\* before the first Q: line of the block
RECURSIVE DropEarly(_)
DropEarly(b) ==
    IF b = <<>> THEN <<>>
    ELSE IF HasMarker(Head(b), {"Q", "q"}) THEN b
    ELSE IF HasMarker(Head(b), {"A", "a"}) THEN <<Head(b)>> \o DropEarly(Tail(b))
    ELSE DropEarly(Tail(b))

\* C17: in a block, a line without marker that stands before the first Q:
\* line is dropped: the block gives the items it gives without such lines,
\* also when an A: line stands before the line.
C17_EarlyLinesDropped ==
    faq_pc = "parsed" =>
        \A n \in 1..Len(BlocksOf(input_lines)) :
            LET b == BlocksOf(input_lines)[n] IN
            parse_faq_input(JoinLines(b)) = parse_faq_input(JoinLines(DropEarly(b)))

\* C19: no question and no answer of a returned item starts or ends with
\* white space.
C19_ItemsTrimmed ==
    faq_pc = "parsed" =>
        \A i \in 1..Len(faqs) :
            /\ Strip(faqs[i].question) = faqs[i].question
            /\ Strip(faqs[i].answer) = faqs[i].answer

(***************************************************************************)
(* What the claim about escape_html speaks of.                             *)
(***************************************************************************)
\* the reference a character is replaced by; any other character stays
ReferenceOf(c) ==
    CASE c = "&" -> <<"&", "a", "m", "p", ";">>
      [] c = "<" -> <<"&", "l", "t", ";">>
      [] c = ">" -> <<"&", "g", "t", ";">>
      [] c = "\"" -> <<"&", "q", "u", "o", "t", ";">>
      [] c = "'" -> <<"&", "#", "3", "9", ";">>
      [] OTHER -> <<c>>

\* C12: escape_html(s) is s with every & < > " ' replaced by its reference
\* and every other character unchanged; the ampersands of the references
\* are not escaped again.
C12_EachCharacterOnce ==
    esc_pc = "escaped" =>
        escaped_text = Concat([i \in 1..Len(raw_text) |-> ReferenceOf(raw_text[i])])

C12_Witness ==
    /\ esc_pc = "escaped"
    /\ raw_text = <<"<", "&", "a">>
    /\ escaped_text = <<"&", "l", "t", ";", "&", "a", "m", "p", ";", "a">>

=============================================================================
